---- MODULE Spec2Model ----
(***************************************************************************)
(* Guitar-Intervals: pitch-class arithmetic, the triad shape selector      *)
(* (GuitarAudio.getTriadNotes), the audio helpers and the fretboards of    *)
(* the two revisions of the page: the three boards made by createFretboard *)
(* and the three separate apps (intervals, major triads, minor triads).    *)
(***************************************************************************)
EXTENDS Integers, Sequences, FiniteSets, TLC

VARIABLES
    tcall,      \* harness of one getTriadNotes call: arguments, result, position
    ncall,      \* harness of the pitch-class helpers: arguments, results, position
    majorBoard, \* major triads app: activeRoot and the DOM state of its board
    minorBoard, \* minor triads app: activeRoot and the DOM state of its board
    audioCtx,   \* GuitarAudio.audioCtx: "null" until initAudio creates the context
    tones,      \* the tones scheduled by the last click handler, in scheduling order
    tlog,       \* the last getTriadNotes call of a handler and one earlier call
    fcall,      \* harness of one getFrequency call: arguments, result, position
    fb,         \* the boards made by createFretboard, by mode: activeRoot and DOM state
    intervalsBoard, \* intervals app: activeRoot and the DOM state of its board
    sel,        \* by mode: the button whose click selected the active root
    played,     \* the board and button of the click that scheduled the tones, and
                \* whether that board had an active root when the click arrived
    page,       \* the revision of the page that is loaded: "apps" or "factory"
    event,      \* the last event a listener received: "none" before the first,
                \* "click", or the key of a keydown
    scheduled,  \* the number of oscillators started by the listeners of that event
    ctxState,   \* audioCtx.state as initAudio read it in the listeners of that event:
                \* "running" or "suspended", "unread" when initAudio was not called
    resumed     \* whether the listeners of that event called audioCtx.resume()

vars == <<tcall, ncall, majorBoard, minorBoard, audioCtx, tones, tlog,
          fcall, fb, intervalsBoard, sel, played, page, event, scheduled,
          ctxState, resumed>>

uiVars == <<majorBoard, minorBoard, audioCtx, tones, tlog, fb, intervalsBoard, sel, played,
            page, event, scheduled, ctxState, resumed>>

(***************************************************************************)
(* Bounds of the model (not program constants).                            *)
(***************************************************************************)
MaxSteps == 25      \* noteUp is exercised with steps in -MaxSteps..MaxSteps
MaxClickCells == 6  \* the boards are clicked on their first MaxClickCells buttons,
                    \* counted down the strings fret by fret
MaxOutside == 2     \* a getTriadNotes call may lie up to MaxOutside strings or frets
                    \* outside the board

(***************************************************************************)
(* Program constants.                                                      *)
(***************************************************************************)
NOTE_ORDER == <<"C", "C#", "D", "D#", "E", "F", "F#", "G", "G#", "A", "A#", "B">>

STRINGS_LOW_TO_HIGH == <<"E", "A", "D", "G", "B", "E">>

FRET_COUNT == 22

INTERVAL_BY_STEPS == <<"U", "m2", "M2", "m3", "M3", "P4", "TT", "P5", "m6", "M6", "m7", "M7">>

\* the modes of createFretboard; the three apps are named by the same words
Modes == {"intervals", "major-triad", "minor-triad"}

\* AudioContext.state as the user agent reports it to initAudio: the page
\* never closes its context
ContextStates == {"running", "suspended"}

\* the keys pressed on the page: e.key of the keydown events
Keys == {"Escape", "a"}

\* [...STRINGS_LOW_TO_HIGH].reverse(): row 0 is the high E, row 5 the low E
stringsNotReversed == [r \in 0..5 |-> STRINGS_LOW_TO_HIGH[r + 1]]

stringsTopToBottom == [r \in 0..5 |-> STRINGS_LOW_TO_HIGH[6 - r]]

StringIndices == 0..5
Frets == 0..FRET_COUNT

(***************************************************************************)
(* JavaScript primitives used by the helpers.                              *)
(***************************************************************************)
\* a % b of JavaScript for b > 0: the remainder takes the sign of a
JsRem(a, b) == IF a >= 0 THEN a % b ELSE 0 - ((0 - a) % b)

\* NOTE_ORDER.indexOf(x): 0-based index, -1 when x is not a note name
IndexOf(x) ==
    IF \E i \in 1..12 : NOTE_ORDER[i] = x
    THEN (CHOOSE i \in 1..12 : NOTE_ORDER[i] = x) - 1
    ELSE 0 - 1

\* NOTE_ORDER[idx]: a property read of an array; undefined outside 0..11
NoteAt(idx) == IF idx \in 0..11 THEN NOTE_ORDER[idx + 1] ELSE "undefined"

(***************************************************************************)
(* FretboardCore.noteUp / getIntervalSteps.                                *)
(***************************************************************************)
noteUp(baseNote, semitoneSteps) ==
    LET baseIndex == IndexOf(baseNote)
        idx       == JsRem(baseIndex + semitoneSteps, 12)
    IN  NoteAt(idx)

\* getIntervalSteps without the + 12
getIntervalStepsNoWrap(noteLetter, rootLetter) ==
    JsRem(IndexOf(noteLetter) - IndexOf(rootLetter), 12)

getIntervalStepsSwapped(noteLetter, rootLetter) ==
    JsRem(IndexOf(rootLetter) - IndexOf(noteLetter) + 12, 12)

getIntervalSteps(noteLetter, rootLetter) ==
    JsRem(IndexOf(noteLetter) - IndexOf(rootLetter) + 12, 12)

(***************************************************************************)
(* GuitarAudio.getTriadNotes.                                              *)
(***************************************************************************)
Note(s, f, i) == [stringIndex |-> s, fret |-> f, interval |-> i]

\* the label of the third with the two qualities exchanged
ThirdLabelSwapped(isMajor) == IF isMajor THEN "b3" ELSE "3"

\* the label of the third: const t = isMajor ? '3' : 'b3'
ThirdLabel(isMajor) == IF isMajor THEN "3" ELSE "b3"

StandardFromFretThree(rootStringIndex) ==
    CASE rootStringIndex \in {1, 2, 3, 4, 5} -> 3
      [] OTHER -> 0

\* the fret from which the standard shape of a root string is used:
\* rootFret >= 3 (low E, A), rootFret >= 2 (D, G, B); the high E has one shape
StandardFromFret(rootStringIndex) ==
    CASE rootStringIndex \in {4, 5} -> 3
      [] rootStringIndex \in {1, 2, 3} -> 2
      [] OTHER -> 0

\* the same test written with > in place of >=
useStandardShapeStrict(rootStringIndex, rootFret) ==
    rootFret > StandardFromFret(rootStringIndex)

\* the if (rootFret >= n) of each case of the switch
useStandardShape(rootStringIndex, rootFret) ==
    rootFret >= StandardFromFret(rootStringIndex)

\* the add(...) calls of the standard shape of each root string (the then
\* branch of each case; the only shape of the high E), in call order
standardShape(rootStringIndex, rootFret, isMajor) ==
    LET t == ThirdLabel(isMajor)
    IN
    CASE rootStringIndex = 5 ->
            << Note(4, rootFret - (IF isMajor THEN 1 ELSE 2), t),
               Note(3, rootFret - 3, "5") >>
      [] rootStringIndex = 4 ->
            << Note(3, rootFret - (IF isMajor THEN 1 ELSE 2), t),
               Note(2, rootFret - 3, "5") >>
      [] rootStringIndex = 3 ->
            << Note(2, rootFret - (IF isMajor THEN 1 ELSE 2), t),
               Note(1, rootFret - 2, "5") >>
      [] rootStringIndex = 2 ->
            << Note(1, rootFret - (IF isMajor THEN 0 ELSE 1), t),
               Note(0, rootFret - 2, "5") >>
      [] rootStringIndex = 1 ->
            << Note(2, rootFret - 1, "5"),
               Note(0, rootFret - (IF isMajor THEN 1 ELSE 2), t) >>
      [] rootStringIndex = 0 ->
            << Note(1, rootFret, "5"),
               Note(2, rootFret + (IF isMajor THEN 1 ELSE 0), t) >>
      [] OTHER -> << >>

lowFretShapeOctaveUp(rootStringIndex, rootFret, isMajor) ==
    LET t == ThirdLabel(isMajor)
    IN
    CASE rootStringIndex = 5 ->
            << Note(4, rootFret + 2, "5"),
               Note(2, rootFret + 12 + (IF isMajor THEN 1 ELSE 0), t) >>
      [] rootStringIndex = 4 ->
            << Note(3, rootFret + 2, "5"),
               Note(1, rootFret + 12 + (IF isMajor THEN 2 ELSE 1), t) >>
      [] rootStringIndex = 3 ->
            << Note(2, rootFret + 2, "5"),
               Note(0, rootFret + 12 + (IF isMajor THEN 2 ELSE 1), t) >>
      [] rootStringIndex = 2 ->
            << Note(3, rootFret, "5"),
               Note(1, rootFret + 12 - (IF isMajor THEN 0 ELSE 1), t) >>
      [] rootStringIndex = 1 ->
            << Note(3, rootFret + 1, t),
               Note(0, rootFret + 2, "5") >>
      [] OTHER -> << >>

\* the add(...) calls of the low-fret shape of each root string (the else
\* branch of each case), in call order
lowFretShape(rootStringIndex, rootFret, isMajor) ==
    LET t == ThirdLabel(isMajor)
    IN
    CASE rootStringIndex = 5 ->
            << Note(4, rootFret + 2, "5"),
               Note(2, rootFret + (IF isMajor THEN 1 ELSE 0), t) >>
      [] rootStringIndex = 4 ->
            << Note(3, rootFret + 2, "5"),
               Note(1, rootFret + (IF isMajor THEN 2 ELSE 1), t) >>
      [] rootStringIndex = 3 ->
            << Note(2, rootFret + 2, "5"),
               Note(0, rootFret + (IF isMajor THEN 2 ELSE 1), t) >>
      [] rootStringIndex = 2 ->
            << Note(3, rootFret, "5"),
               Note(1, rootFret - (IF isMajor THEN 0 ELSE 1), t) >>
      [] rootStringIndex = 1 ->
            << Note(3, rootFret + 1, t),
               Note(0, rootFret + 2, "5") >>
      [] OTHER -> << >>

\* the arguments of the two add(...) calls of the switch, in call order
triadCandidates(rootStringIndex, rootFret, isMajor) ==
    IF rootStringIndex = 0 \/ useStandardShape(rootStringIndex, rootFret)
    THEN standardShape(rootStringIndex, rootFret, isMajor)
    ELSE lowFretShape(rootStringIndex, rootFret, isMajor)

\* the guard of add and of the final filter: f >= 0 && f <= 22
fretOnBoard(n) == n.fret >= 0 /\ n.fret <= 22

\* getTriadNotes without the guard of add and without the final filter
getTriadNotesUnfiltered(rootStringIndex, rootFret, isMajor) ==
    << Note(rootStringIndex, rootFret, "R") >>
        \o triadCandidates(rootStringIndex, rootFret, isMajor)

getTriadNotesRootLast(rootStringIndex, rootFret, isMajor) ==
    LET notes == SelectSeq(triadCandidates(rootStringIndex, rootFret, isMajor),
                           fretOnBoard)
                 \o << Note(rootStringIndex, rootFret, "R") >>
    IN  SelectSeq(notes, fretOnBoard)

getTriadNotes(rootStringIndex, rootFret, isMajor) ==
    LET notes == << Note(rootStringIndex, rootFret, "R") >>
                 \o SelectSeq(triadCandidates(rootStringIndex, rootFret, isMajor),
                              fretOnBoard)
    IN  SelectSeq(notes, fretOnBoard)

(***************************************************************************)
(* Standard tuning, for stating the claims: pitch of the open string of    *)
(* each board row in semitones (MIDI numbers E4 B3 G3 D3 A2 E2).           *)
(***************************************************************************)
OpenPitch == [r \in 0..5 |->
                 CASE r = 0 -> 64 [] r = 1 -> 59 [] r = 2 -> 55
                   [] r = 3 -> 50 [] r = 4 -> 45 [] OTHER -> 40]

Pitch(n) == OpenPitch[n.stringIndex] + n.fret

\* pitch class (index into NOTE_ORDER) of a position, through the board's own
\* note name: noteUp(open string letter, fret)
PitchClassAt(s, f) == IndexOf(noteUp(stringsTopToBottom[s], f))

(***************************************************************************)
(* GuitarAudio: getFrequency, initAudio, playFrequency, playTriad.  A       *)
(* frequency base * 2^(n/12) is kept as the open-string frequency in        *)
(* hundredths of a hertz and the exponent n in semitones; a delay is kept   *)
(* in milliseconds.                                                         *)
(***************************************************************************)
STRING_BASE_FREQ(key) ==
    CASE key = "E-low"  -> 8241
      [] key = "A"      -> 11000
      [] key = "D"      -> 14683
      [] key = "G"      -> 19600
      [] key = "B"      -> 24694
      [] key = "E-high" -> 32963

getFrequencyLowFirst(stringName, fret, stringIndex) ==
    LET baseFreq ==
            IF stringName = "E"
            THEN (IF stringIndex = 0 THEN STRING_BASE_FREQ("E-low")
                                     ELSE STRING_BASE_FREQ("E-high"))
            ELSE STRING_BASE_FREQ(stringName)
    IN  [base |-> baseFreq, semis |-> fret]

getFrequency(stringName, fret, stringIndex) ==
    LET baseFreq ==
            IF stringName = "E"
            THEN (IF stringIndex = 0 THEN STRING_BASE_FREQ("E-high")
                                     ELSE STRING_BASE_FREQ("E-low"))
            ELSE STRING_BASE_FREQ(stringName)
    IN  [base |-> baseFreq, semis |-> fret]

initAudioAlwaysNew(ctx, state) ==
    [audioCtx |-> IF ctx = "null" THEN "context" ELSE "context2",
     resumed  |-> (state = "suspended")]

\* initAudio() with audioCtx = ctx, where state is what audioCtx.state reads
\* after the first statement (the state of the context just created, or of
\* the context kept): if (!audioCtx) audioCtx = new AudioContext();
\* if (audioCtx.state === 'suspended') audioCtx.resume(); return audioCtx.
\* The value holds the context the variable refers to afterwards, which is
\* also the one returned, and whether resume() was called.
initAudio(ctx, state) ==
    [audioCtx |-> IF ctx = "null" THEN "context" ELSE ctx,
     resumed  |-> (state = "suspended")]

\* the initAudio calls of one listener (playNote calls it once, playTriad once
\* itself and once in each playFrequency): the user agent changes the state
\* attribute between tasks only, so every call of the listener reads the same
\* state
CallInitAudio ==
    \E state \in ContextStates :
        /\ ctxState' = state
        /\ audioCtx' = initAudio(audioCtx, state).audioCtx
        /\ resumed' = initAudio(audioCtx, state).resumed

\* a listener or a branch of it that makes no audio call
NoAudioCall ==
    /\ scheduled' = 0
    /\ ctxState' = "unread"
    /\ resumed' = FALSE

playTriadDelayFromOne(rootFrequency, intervals) ==
    [i \in 1..Len(intervals) |->
        [base    |-> rootFrequency.base,
         semis   |-> rootFrequency.semis + intervals[i],
         delayMs |-> i * 80]]

playTriadDescending(rootFrequency, intervals) ==
    [i \in 1..Len(intervals) |->
        [base    |-> rootFrequency.base,
         semis   |-> rootFrequency.semis + intervals[Len(intervals) + 1 - i],
         delayMs |-> (i - 1) * 80]]

\* the tones playTriad hands to playFrequency: rootFrequency * 2^(semitones/12)
\* at delay index * 0.08 s
playTriad(rootFrequency, intervals) ==
    [i \in 1..Len(intervals) |->
        [base    |-> rootFrequency.base,
         semis   |-> rootFrequency.semis + intervals[i],
         delayMs |-> (i - 1) * 80]]

\* playNote(stringName, fret, stringIndex): one oscillator at
\* getFrequency(stringName, fret, stringIndex), started at once
playNote(stringName, fret, stringIndex) ==
    LET frequency == getFrequency(stringName, fret, stringIndex)
    IN  <<[base |-> frequency.base, semis |-> frequency.semis, delayMs |-> 0]>>

(***************************************************************************)
(* The major and minor triad apps: buildBoard, clearTriad, showMajorTriad,  *)
(* showMinorTriad, the click handlers and the Escape handlers.              *)
(***************************************************************************)
\* the data-note attributes written by buildBoard, by data-string-index and
\* data-fret: noteUp(openNote, fret)
BoardNotes == [r \in StringIndices |-> [f \in Frets |-> noteUp(stringsTopToBottom[r], f)]]

\* data-note of the button of row s at fret f
DataNote(s, f) == BoardNotes[s][f]

\* data-open of the buttons of row s
DataOpen(s) == stringsTopToBottom[s]

\* noteName.includes('#')
IsSharp(noteName) == noteName \in {"C#", "D#", "F#", "G#", "A#"}

\* `${stringIndex}-${fret}`
PosKey(stringIndex, fret) == ToString(stringIndex) \o "-" \o ToString(fret)

\* posKey of each button, from its data-string-index and data-fret attributes
ButtonKeys == [r \in StringIndices |-> [f \in Frets |-> PosKey(r, f)]]

\* NOTE_ORDER.indexOf(noteLetter) of each button
ButtonNoteIndex == [r \in StringIndices |-> [f \in Frets |-> IndexOf(BoardNotes[r][f])]]

\* a .note button as buildBoard writes it: the interval span empty and
\* ghosted, the letter span showing the note name
builtButton(noteName) ==
    [root          |-> FALSE,
     activeTriad   |-> FALSE,
     sharp         |-> IsSharp(noteName),
     intervalText  |-> "",
     intervalGhost |-> TRUE,
     letterText    |-> noteName,
     letterGhost   |-> FALSE]

\* the app after buildBoard() and let activeRoot = null
buildBoard ==
    [activeRoot |-> "null",
     cells      |-> [r \in StringIndices |-> [f \in Frets |-> builtButton(BoardNotes[r][f])]]]

\* the body of the forEach of clearTriad for one button
clearedButton(btn, noteName) ==
    [btn EXCEPT !.root          = FALSE,
                !.activeTriad   = FALSE,
                !.intervalText  = "",
                !.letterText    = noteName,
                !.intervalGhost = TRUE,
                !.letterGhost   = FALSE]

clearTriad(b) ==
    [activeRoot |-> "null",
     cells      |-> [r \in StringIndices |-> [f \in Frets |->
                        clearedButton(b.cells[r][f], BoardNotes[r][f])]]]

shownButtonKeepsLabel(btn, noteName, intervalSteps, inPositionKeys, third, thirdLabel) ==
    IF intervalSteps \in {0, third, 7}
    THEN LET label == IF intervalSteps = 0 THEN "R"
                      ELSE IF intervalSteps = third THEN thirdLabel ELSE "5"
         IN  [root          |-> (label = "R"),
              activeTriad   |-> inPositionKeys,
              sharp         |-> IsSharp(noteName),
              intervalText  |-> label,
              intervalGhost |-> FALSE,
              letterText    |-> noteName,
              letterGhost   |-> FALSE]
    ELSE     [root          |-> FALSE,
              activeTriad   |-> FALSE,
              sharp         |-> IsSharp(noteName),
              intervalText  |-> btn.intervalText,
              intervalGhost |-> TRUE,
              letterText    |-> noteName,
              letterGhost   |-> TRUE]

shownButtonOutlinesGhost(btn, noteName, intervalSteps, inPositionKeys, third, thirdLabel) ==
    IF intervalSteps \in {0, third, 7}
    THEN LET label == IF intervalSteps = 0 THEN "R"
                      ELSE IF intervalSteps = third THEN thirdLabel ELSE "5"
         IN  [root          |-> (label = "R"),
              activeTriad   |-> inPositionKeys,
              sharp         |-> IsSharp(noteName),
              intervalText  |-> label,
              intervalGhost |-> FALSE,
              letterText    |-> noteName,
              letterGhost   |-> FALSE]
    ELSE     [root          |-> FALSE,
              activeTriad   |-> inPositionKeys,
              sharp         |-> IsSharp(noteName),
              intervalText  |-> "",
              intervalGhost |-> TRUE,
              letterText    |-> noteName,
              letterGhost   |-> TRUE]

shownButtonKeepsOutline(btn, noteName, intervalSteps, inPositionKeys, third, thirdLabel) ==
    IF intervalSteps \in {0, third, 7}
    THEN LET label == IF intervalSteps = 0 THEN "R"
                      ELSE IF intervalSteps = third THEN thirdLabel ELSE "5"
         IN  [root          |-> (label = "R"),
              activeTriad   |-> (inPositionKeys \/ btn.activeTriad),
              sharp         |-> IsSharp(noteName),
              intervalText  |-> label,
              intervalGhost |-> FALSE,
              letterText    |-> noteName,
              letterGhost   |-> FALSE]
    ELSE     [root          |-> FALSE,
              activeTriad   |-> FALSE,
              sharp         |-> IsSharp(noteName),
              intervalText  |-> "",
              intervalGhost |-> TRUE,
              letterText    |-> noteName,
              letterGhost   |-> TRUE]

\* the body of the forEach of showMajorTriad / showMinorTriad for one button:
\* intervalSteps = (indexOf(noteLetter) - indexOf(rootLetter) + 12) % 12,
\* triadSet = {0, third, 7}, the third labelled thirdLabel
shownButton(btn, noteName, intervalSteps, inPositionKeys, third, thirdLabel) ==
    IF intervalSteps \in {0, third, 7}
    THEN LET label == IF intervalSteps = 0 THEN "R"
                      ELSE IF intervalSteps = third THEN thirdLabel ELSE "5"
         IN  [root          |-> (label = "R"),
              activeTriad   |-> inPositionKeys,
              sharp         |-> IsSharp(noteName),
              intervalText  |-> label,
              intervalGhost |-> FALSE,
              letterText    |-> noteName,
              letterGhost   |-> FALSE]
    ELSE     [root          |-> FALSE,
              activeTriad   |-> FALSE,
              sharp         |-> IsSharp(noteName),
              intervalText  |-> "",
              intervalGhost |-> TRUE,
              letterText    |-> noteName,
              letterGhost   |-> TRUE]

\* the loop over the buttons shared by showMajorTriad and showMinorTriad
showTriad(b, rootLetter, triadPositions, third, thirdLabel) ==
    LET positionKeys == {PosKey(triadPositions[i].stringIndex, triadPositions[i].fret) :
                            i \in DOMAIN triadPositions}
        rootIndex    == IndexOf(rootLetter)
    IN  [b EXCEPT !.cells =
            [r \in StringIndices |-> [f \in Frets |->
                shownButton(b.cells[r][f], BoardNotes[r][f],
                            JsRem(ButtonNoteIndex[r][f] - rootIndex + 12, 12),
                            ButtonKeys[r][f] \in positionKeys,
                            third, thirdLabel)]]]

showMajorTriad(b, rootLetter, rootStringIndex, rootFret) ==
    showTriad(b, rootLetter, getTriadNotes(rootStringIndex, rootFret, TRUE), 4, "3")

showMinorTriad(b, rootLetter, rootStringIndex, rootFret) ==
    showTriad(b, rootLetter, getTriadNotes(rootStringIndex, rootFret, FALSE), 3, "b3")

\* the record kept of a getTriadNotes call made by a click handler; wasActive
\* tells whether the board had an active root when the click arrived
LogCall(b, s, f, isMajor) ==
    [s |-> s, f |-> f, major |-> isMajor,
     result |-> getTriadNotes(s, f, isMajor),
     wasActive |-> (b.activeRoot # "null")]

NoCall == [s |-> 0 - 1, f |-> 0 - 1, major |-> FALSE, result |-> << >>,
           wasActive |-> FALSE]

\* the log after a call: the new call is the last one, the earlier call kept is
\* either the one kept so far or the call that was the last one
LogAfter(call) ==
    IF tlog.on
    THEN \E keep \in {tlog.prev, tlog.last} :
            tlog' = [on |-> TRUE, prev |-> keep, last |-> call]
    ELSE UNCHANGED tlog

(***************************************************************************)
(* The intervals app: buildBoard, clearIntervals, showIntervals.           *)
(***************************************************************************)
\* a .note button as buildBoard of the intervals app writes it: both spans
\* ghosted and showing the note name
builtIntervalsButton(noteName) ==
    [root          |-> FALSE,
     sharp         |-> IsSharp(noteName),
     intervalText  |-> noteName,
     intervalGhost |-> TRUE,
     letterText    |-> noteName,
     letterGhost   |-> TRUE]

\* the intervals app after buildBoard() and let activeRoot = null
buildIntervalsBoard ==
    [activeRoot |-> "null",
     cells      |-> [r \in StringIndices |-> [f \in Frets |->
                        builtIntervalsButton(BoardNotes[r][f])]]]

\* clearIntervals: every ghost class of the button removed, then the interval
\* span ghosted again
clearIntervals(b) ==
    [activeRoot |-> "null",
     cells      |-> [r \in StringIndices |-> [f \in Frets |->
                        [b.cells[r][f] EXCEPT !.root          = FALSE,
                                              !.intervalText  = "",
                                              !.letterText    = BoardNotes[r][f],
                                              !.letterGhost   = FALSE,
                                              !.intervalGhost = TRUE]]]]

\* showIntervals(rootLetter)
showIntervals(b, rootLetter) ==
    LET rootIndex == IndexOf(rootLetter)
    IN  [b EXCEPT !.cells =
            [r \in StringIndices |-> [f \in Frets |->
                LET intervalSteps == JsRem(ButtonNoteIndex[r][f] - rootIndex + 12, 12)
                IN  [root          |-> (intervalSteps = 0),
                     sharp         |-> IsSharp(BoardNotes[r][f]),
                     intervalText  |-> INTERVAL_BY_STEPS[intervalSteps + 1],
                     intervalGhost |-> FALSE,
                     letterText    |-> BoardNotes[r][f],
                     letterGhost   |-> FALSE]]]]

(***************************************************************************)
(* createFretboard(config): modeConfig, clear, show.                       *)
(***************************************************************************)
\* modeConfig[mode].triadIntervals; null for the intervals mode
triadIntervals(mode) ==
    IF mode = "major-triad" THEN <<0, 4, 7>>
    ELSE IF mode = "minor-triad" THEN <<0, 3, 7>>
    ELSE << >>

\* new Set(currentMode.triadIntervals)
triadSet(mode) == {triadIntervals(mode)[i] : i \in DOMAIN triadIntervals(mode)}

\* currentMode.getLabel(steps) || '': INTERVAL_BY_STEPS[steps] in the intervals
\* mode, triadLabels[steps] || null in the triad modes
getLabel(mode, steps) ==
    IF mode = "major-triad"
    THEN (IF steps = 0 THEN "R" ELSE IF steps = 4 THEN "3"
          ELSE IF steps = 7 THEN "5" ELSE "")
    ELSE IF mode = "minor-triad"
    THEN (IF steps = 0 THEN "R" ELSE IF steps = 3 THEN "b3"
          ELSE IF steps = 7 THEN "5" ELSE "")
    ELSE IF steps \in 0..11 THEN INTERVAL_BY_STEPS[steps + 1] ELSE ""

\* currentMode.playSound(btn): the tones it schedules
playSound(mode, s, f) ==
    IF mode \in {"major-triad", "minor-triad"}
    THEN playTriad(getFrequency(DataOpen(s), f, s), triadIntervals(mode))
    ELSE playNote(DataOpen(s), f, s)

\* a .note button as buildBoardHTML(false) writes it: the interval span empty
\* and ghosted, the letter span showing the note name
buildBoardHTML ==
    [r \in StringIndices |-> [f \in Frets |->
        [root          |-> FALSE,
         sharp         |-> IsSharp(noteUp(stringsTopToBottom[r], f)),
         intervalText  |-> "",
         intervalGhost |-> TRUE,
         letterText    |-> noteUp(stringsTopToBottom[r], f),
         letterGhost   |-> FALSE]]]

clearLeavesRootMark(b) ==
    [activeRoot |-> "null",
     cells      |-> [r \in StringIndices |-> [f \in Frets |->
                        [b.cells[r][f] EXCEPT !.intervalText  = "",
                                              !.intervalGhost = TRUE,
                                              !.letterText    = BoardNotes[r][f],
                                              !.letterGhost   = FALSE]]]]

clearKeepsRoot(b) ==
    [activeRoot |-> b.activeRoot,
     cells      |-> [r \in StringIndices |-> [f \in Frets |->
                        [b.cells[r][f] EXCEPT !.root          = FALSE,
                                              !.intervalText  = "",
                                              !.intervalGhost = TRUE,
                                              !.letterText    = BoardNotes[r][f],
                                              !.letterGhost   = FALSE]]]]

\* clear() of a board made by createFretboard
clear(b) ==
    [activeRoot |-> "null",
     cells      |-> [r \in StringIndices |-> [f \in Frets |->
                        [b.cells[r][f] EXCEPT !.root          = FALSE,
                                              !.intervalText  = "",
                                              !.intervalGhost = TRUE,
                                              !.letterText    = BoardNotes[r][f],
                                              !.letterGhost   = FALSE]]]]

\* getIntervalSteps(data-note, rootLetter) of every button, by root letter
StepsTable ==
    [i \in 1..12 |-> [r \in StringIndices |-> [f \in Frets |->
        getIntervalSteps(BoardNotes[r][f], NOTE_ORDER[i])]]]

\* show(rootLetter) of a board made by createFretboard in the given mode
show(b, mode, rootLetter) ==
    LET steps == StepsTable[IndexOf(rootLetter) + 1]
    IN  [b EXCEPT !.cells =
            [r \in StringIndices |-> [f \in Frets |->
                LET intervalSteps == steps[r][f]
                    shouldShow    == triadIntervals(mode) = << >>
                                     \/ intervalSteps \in triadSet(mode)
                IN  IF shouldShow
                    THEN [root          |-> (intervalSteps = 0),
                          sharp         |-> IsSharp(BoardNotes[r][f]),
                          intervalText  |-> getLabel(mode, intervalSteps),
                          intervalGhost |-> FALSE,
                          letterText    |-> BoardNotes[r][f],
                          letterGhost   |-> FALSE]
                    ELSE [root          |-> FALSE,
                          sharp         |-> IsSharp(BoardNotes[r][f]),
                          intervalText  |-> "",
                          intervalGhost |-> TRUE,
                          letterText    |-> BoardNotes[r][f],
                          letterGhost   |-> TRUE]]]]

\* createFretboard(config): the board built, activeRoot = null, then clear()
createFretboard(mode) == clear([activeRoot |-> "null", cells |-> buildBoardHTML])

(***************************************************************************)
(* The two revisions of the page and their handlers.                       *)
(***************************************************************************)
NoCell == <<0 - 1, 0 - 1>>

NoSel == [m \in Modes |-> NoCell]

NoPlay == [mode |-> "none", s |-> 0 - 1, f |-> 0 - 1, wasActive |-> FALSE]

\* no sound scheduled yet, no root selected yet
QuietInit ==
    /\ audioCtx = "null"
    /\ tones = << >>
    /\ sel = NoSel
    /\ played = NoPlay
    /\ event = "none"
    /\ scheduled = 0
    /\ ctxState = "unread"
    /\ resumed = FALSE

FreqIdle == fcall = [s |-> 0, f |-> 0, result |-> [base |-> 0, semis |-> 0], pc |-> "off"]

\* the page of the three apps after the scripts have run: each app ends with
\* its clear function
PageInit ==
    /\ intervalsBoard = clearIntervals(buildIntervalsBoard)
    /\ majorBoard = clearTriad(buildBoard)
    /\ minorBoard = clearTriad(buildBoard)
    /\ fb = "none"
    /\ page = "apps"
    /\ QuietInit

\* the page of createFretboard after the script has run: three boards
FactoryInit ==
    /\ fb = [m \in Modes |-> createFretboard(m)]
    /\ intervalsBoard = "none"
    /\ majorBoard = "none"
    /\ minorBoard = "none"
    /\ page = "factory"
    /\ QuietInit

\* the page with the handlers' getTriadNotes calls not recorded
UiInit == PageInit /\ tlog = [on |-> FALSE, prev |-> NoCall, last |-> NoCall]

\* btn of a click listener, e.target.closest('.note'): the button <<s, f>> the
\* click landed in, or NoButton (null) when the target is a string label, a
\* cell around its button, the nut or the board itself
NoButton == <<0 - 1, 0 - 1>>

\* if (!btn) return: the listener has received the click and returns before it
\* reads activeRoot; no sound, no selection. (The second guard, if (!note)
\* return, never fires: every button carries its note name in data-note.)
ReturnNoButton ==
    /\ event' = "click"
    /\ NoAudioCall
    /\ UNCHANGED <<sel, audioCtx, tones, played>>

\* the click listener of the intervals board: a click in a button plays its
\* note, whether it selects or clears
IntervalsClick(btn) ==
    IF btn = NoButton
    THEN /\ ReturnNoButton
         /\ UNCHANGED <<intervalsBoard, majorBoard, minorBoard, fb, tlog>>
    ELSE LET s    == btn[1]
             f    == btn[2]
             note == DataNote(s, f)
         IN  /\ event' = "click"
             /\ tones' = playNote(DataOpen(s), f, s)
             /\ scheduled' = Len(tones')
             /\ played' = [mode |-> "intervals", s |-> s, f |-> f,
                           wasActive |-> (intervalsBoard.activeRoot # "null")]
             /\ UNCHANGED <<majorBoard, minorBoard, fb, tlog>>
             /\ IF intervalsBoard.activeRoot = note
                THEN /\ sel' = [sel EXCEPT !["intervals"] = NoCell]
                     /\ intervalsBoard' = clearIntervals(intervalsBoard)
                ELSE /\ sel' = [sel EXCEPT !["intervals"] = <<s, f>>]
                     /\ intervalsBoard' = showIntervals(
                                        [intervalsBoard EXCEPT !.activeRoot = note], note)
             /\ CallInitAudio

\* the click listener of the major triads board
MajorClick(btn) ==
    IF btn = NoButton
    THEN /\ ReturnNoButton
         /\ UNCHANGED <<intervalsBoard, majorBoard, minorBoard, fb, tlog>>
    ELSE LET s    == btn[1]
             f    == btn[2]
             note == DataNote(s, f)
         IN  IF majorBoard.activeRoot = note
             THEN /\ event' = "click"
                  /\ NoAudioCall
                  /\ sel' = [sel EXCEPT !["major-triad"] = NoCell]
                  /\ UNCHANGED <<intervalsBoard, minorBoard, fb, audioCtx, tones, played,
                                 tlog>>
                  /\ majorBoard' = clearTriad(majorBoard)
             ELSE /\ event' = "click"
                  /\ sel' = [sel EXCEPT !["major-triad"] = <<s, f>>]
                  /\ played' = [mode |-> "major-triad", s |-> s, f |-> f,
                                wasActive |-> (majorBoard.activeRoot # "null")]
                  /\ UNCHANGED <<intervalsBoard, minorBoard, fb>>
                  /\ majorBoard' = showMajorTriad([majorBoard EXCEPT !.activeRoot = note],
                                                  note, s, f)
                  /\ CallInitAudio
                  /\ tones' = playTriad(getFrequency(DataOpen(s), f, s), <<0, 4, 7>>)
                  /\ scheduled' = Len(tones')
                  /\ LogAfter(LogCall(majorBoard, s, f, TRUE))

\* the click listener of the minor triads board
MinorClick(btn) ==
    IF btn = NoButton
    THEN /\ ReturnNoButton
         /\ UNCHANGED <<intervalsBoard, majorBoard, minorBoard, fb, tlog>>
    ELSE LET s    == btn[1]
             f    == btn[2]
             note == DataNote(s, f)
         IN  IF minorBoard.activeRoot = note
             THEN /\ event' = "click"
                  /\ NoAudioCall
                  /\ sel' = [sel EXCEPT !["minor-triad"] = NoCell]
                  /\ UNCHANGED <<intervalsBoard, majorBoard, fb, audioCtx, tones, played,
                                 tlog>>
                  /\ minorBoard' = clearTriad(minorBoard)
             ELSE /\ event' = "click"
                  /\ sel' = [sel EXCEPT !["minor-triad"] = <<s, f>>]
                  /\ played' = [mode |-> "minor-triad", s |-> s, f |-> f,
                                wasActive |-> (minorBoard.activeRoot # "null")]
                  /\ UNCHANGED <<intervalsBoard, majorBoard, fb>>
                  /\ minorBoard' = showMinorTriad([minorBoard EXCEPT !.activeRoot = note],
                                                  note, s, f)
                  /\ CallInitAudio
                  /\ tones' = playTriad(getFrequency(DataOpen(s), f, s), <<0, 3, 7>>)
                  /\ scheduled' = Len(tones')
                  /\ LogAfter(LogCall(minorBoard, s, f, FALSE))

\* keydown with e.key === 'Escape': the listener of each app clears its board
Escape ==
    /\ sel' = NoSel
    /\ UNCHANGED <<fb, audioCtx, tones, played, tlog>>
    /\ intervalsBoard' = clearIntervals(intervalsBoard)
    /\ majorBoard' = clearTriad(majorBoard)
    /\ minorBoard' = clearTriad(minorBoard)

KeydownAnyKeyClears(key) ==
    /\ event' = key
    /\ NoAudioCall
    /\ Escape

\* a keydown event on the page of the three apps: each listener tests
\* e.key === 'Escape' and does nothing for another key
Keydown(key) ==
    /\ event' = key
    /\ NoAudioCall
    /\ IF key = "Escape"
       THEN Escape
       ELSE UNCHANGED <<intervalsBoard, majorBoard, minorBoard, fb, sel,
                        audioCtx, tones, played, tlog>>

FretboardClickAlwaysPlays(mode, btn) ==
    IF btn = NoButton
    THEN ReturnNoButton /\ UNCHANGED fb
    ELSE LET s    == btn[1]
             f    == btn[2]
             note == DataNote(s, f)
         IN  /\ event' = "click"
             /\ played' = [mode |-> mode, s |-> s, f |-> f,
                           wasActive |-> (fb[mode].activeRoot # "null")]
             /\ CallInitAudio
             /\ tones' = playSound(mode, s, f)
             /\ scheduled' = Len(tones')
             /\ IF fb[mode].activeRoot = note
                THEN /\ sel' = [sel EXCEPT ![mode] = NoCell]
                     /\ fb' = [fb EXCEPT ![mode] = clear(fb[mode])]
                ELSE /\ sel' = [sel EXCEPT ![mode] = <<s, f>>]
                     /\ fb' = [fb EXCEPT ![mode] =
                                  show([fb[mode] EXCEPT !.activeRoot = note], mode, note)]

FretboardClickTogglesAnyRoot(mode, btn) ==
    IF btn = NoButton
    THEN ReturnNoButton /\ UNCHANGED fb
    ELSE LET s    == btn[1]
             f    == btn[2]
             note == DataNote(s, f)
         IN  IF fb[mode].activeRoot # "null"
             THEN /\ event' = "click"
                  /\ NoAudioCall
                  /\ sel' = [sel EXCEPT ![mode] = NoCell]
                  /\ UNCHANGED <<audioCtx, tones, played>>
                  /\ fb' = [fb EXCEPT ![mode] = clear(fb[mode])]
             ELSE /\ event' = "click"
                  /\ sel' = [sel EXCEPT ![mode] = <<s, f>>]
                  /\ played' = [mode |-> mode, s |-> s, f |-> f,
                                wasActive |-> (fb[mode].activeRoot # "null")]
                  /\ fb' = [fb EXCEPT ![mode] =
                               show([fb[mode] EXCEPT !.activeRoot = note], mode, note)]
                  /\ CallInitAudio
                  /\ tones' = playSound(mode, s, f)
                  /\ scheduled' = Len(tones')

\* the click listener of the board that createFretboard made for the given
\* mode
FretboardClick(mode, btn) ==
    IF btn = NoButton
    THEN ReturnNoButton /\ UNCHANGED fb
    ELSE LET s    == btn[1]
             f    == btn[2]
             note == DataNote(s, f)
         IN  IF fb[mode].activeRoot = note
             THEN /\ event' = "click"
                  /\ NoAudioCall
                  /\ sel' = [sel EXCEPT ![mode] = NoCell]
                  /\ UNCHANGED <<audioCtx, tones, played>>
                  /\ fb' = [fb EXCEPT ![mode] = clear(fb[mode])]
             ELSE /\ event' = "click"
                  /\ sel' = [sel EXCEPT ![mode] = <<s, f>>]
                  /\ played' = [mode |-> mode, s |-> s, f |-> f,
                                wasActive |-> (fb[mode].activeRoot # "null")]
                  /\ fb' = [fb EXCEPT ![mode] =
                               show([fb[mode] EXCEPT !.activeRoot = note], mode, note)]
                  /\ CallInitAudio
                  /\ tones' = playSound(mode, s, f)
                  /\ scheduled' = Len(tones')

\* the single global Escape handler: fretboards.forEach((fb) => fb.clear())
FretboardEscape ==
    /\ sel' = NoSel
    /\ UNCHANGED <<audioCtx, tones, played>>
    /\ fb' = [m \in Modes |-> clear(fb[m])]

FretboardKeydownAnyKeyClears(key) ==
    /\ event' = key
    /\ NoAudioCall
    /\ FretboardEscape

\* a keydown event on the page of createFretboard: the listener tests
\* e.key === 'Escape' and does nothing for another key
FretboardKeydown(key) ==
    /\ event' = key
    /\ NoAudioCall
    /\ IF key = "Escape"
       THEN FretboardEscape
       ELSE UNCHANGED <<fb, sel, audioCtx, tones, played>>

\* the buttons that are clicked: button k is on row k % 6 at fret k \div 6
ClickCells == {<<k % 6, k \div 6>> : k \in 0..(MaxClickCells - 1)}

\* what a click on a board lands on: one of those buttons, or an element of
\* the board outside every button
ClickTargets == ClickCells \cup {NoButton}

harnessVars == <<tcall, ncall, fcall, page>>

appVars == <<intervalsBoard, majorBoard, minorBoard, tlog>>

ClickMajor == \E btn \in ClickTargets : MajorClick(btn) /\ UNCHANGED harnessVars

ClickMinor == \E btn \in ClickTargets : MinorClick(btn) /\ UNCHANGED harnessVars

PressEscape == Keydown("Escape") /\ UNCHANGED harnessVars

UiNext == ClickMajor \/ ClickMinor \/ PressEscape

ClickIntervals ==
    /\ page = "apps"
    /\ \E btn \in ClickTargets : IntervalsClick(btn)
    /\ UNCHANGED harnessVars

ClickMajorApp == page = "apps" /\ ClickMajor

ClickMinorApp == page = "apps" /\ ClickMinor

PressKeyApps ==
    /\ page = "apps"
    /\ \E key \in Keys : Keydown(key)
    /\ UNCHANGED harnessVars

ClickFretboard ==
    /\ page = "factory"
    /\ \E m \in Modes, btn \in ClickTargets : FretboardClick(m, btn)
    /\ UNCHANGED <<harnessVars, appVars>>

PressKeyFretboards ==
    /\ page = "factory"
    /\ \E key \in Keys : FretboardKeydown(key)
    /\ UNCHANGED <<harnessVars, appVars>>

PageNext ==
    \/ ClickIntervals \/ ClickMajorApp \/ ClickMinorApp \/ PressKeyApps
    \/ ClickFretboard \/ PressKeyFretboards

(***************************************************************************)
(* Harness of the pure functions.                                          *)
(***************************************************************************)
TriadInit ==
    tcall \in [s : StringIndices, f : Frets, major : BOOLEAN,
               result : {<< >>}, pc : {"ready"}]

PitchInit ==
    ncall \in [base : {NOTE_ORDER[i] : i \in 1..12},
               steps : (0 - MaxSteps)..MaxSteps,
               root : {NOTE_ORDER[i] : i \in 1..12},
               out : {"none"}, back : {"none"}, reduced : {"none"},
               isteps : {0 - 1}, pc : {"ready"}]

\* a call whose arguments may lie outside the board
TriadAnyInit ==
    tcall \in [s : (0 - MaxOutside)..(5 + MaxOutside),
               f : (0 - MaxOutside)..(FRET_COUNT + MaxOutside),
               major : BOOLEAN, result : {<< >>}, pc : {"ready"}]

TriadIdle == tcall = [s |-> 0, f |-> 0, major |-> TRUE, result |-> << >>, pc |-> "off"]

PitchIdle == ncall = [base |-> "C", steps |-> 0, root |-> "C", out |-> "none",
                      back |-> "none", reduced |-> "none", isteps |-> 0 - 1,
                      pc |-> "off"]

\* one call getTriadNotes(s, f, major)
CallGetTriadNotes ==
    /\ tcall.pc = "ready"
    /\ tcall' = [tcall EXCEPT !.result = getTriadNotes(tcall.s, tcall.f, tcall.major),
                              !.pc = "done"]
    /\ UNCHANGED <<ncall, fcall, uiVars>>

\* noteUp(base, steps)
CallNoteUp ==
    /\ ncall.pc = "ready"
    /\ ncall' = [ncall EXCEPT !.out = noteUp(ncall.base, ncall.steps), !.pc = "up"]
    /\ UNCHANGED <<tcall, fcall, uiVars>>

\* noteUp(noteUp(base, steps), -steps)
CallNoteUpBack ==
    /\ ncall.pc = "up"
    /\ ncall' = [ncall EXCEPT !.back = noteUp(ncall.out, 0 - ncall.steps), !.pc = "back"]
    /\ UNCHANGED <<tcall, fcall, uiVars>>

\* noteUp(base, steps mod 12), the steps reduced to 0..11 by the caller
CallNoteUpReduced ==
    /\ ncall.pc = "back"
    /\ ncall' = [ncall EXCEPT !.reduced = noteUp(ncall.base, ncall.steps % 12),
                              !.pc = "reduced"]
    /\ UNCHANGED <<tcall, fcall, uiVars>>

\* getIntervalSteps(base, root)
CallGetIntervalSteps ==
    /\ ncall.pc = "reduced"
    /\ ncall' = [ncall EXCEPT !.isteps = getIntervalSteps(ncall.base, ncall.root),
                              !.pc = "done"]
    /\ UNCHANGED <<tcall, fcall, uiVars>>

\* getFrequency(data-open, data-fret, data-string-index) of one button
CallGetFrequency ==
    /\ fcall.pc = "ready"
    /\ fcall' = [fcall EXCEPT !.result = getFrequency(DataOpen(fcall.s), fcall.f, fcall.s),
                              !.pc = "done"]
    /\ UNCHANGED <<tcall, ncall, uiVars>>

FreqInit ==
    fcall \in [s : StringIndices, f : Frets, result : {[base |-> 0, semis |-> 0]},
               pc : {"ready"}]

FreqNext == CallGetFrequency

TriadNext == CallGetTriadNotes

PitchNext == CallNoteUp \/ CallNoteUpBack \/ CallNoteUpReduced \/ CallGetIntervalSteps

InitTriad == TriadInit /\ PitchIdle /\ FreqIdle /\ UiInit

InitPitch == PitchInit /\ TriadIdle /\ FreqIdle /\ UiInit

InitTriadAny == TriadAnyInit /\ PitchIdle /\ FreqIdle /\ UiInit

InitFreq == FreqInit /\ TriadIdle /\ PitchIdle /\ UiInit

\* either revision of the page, loaded
InitPage ==
    /\ PageInit \/ FactoryInit
    /\ tlog = [on |-> FALSE, prev |-> NoCall, last |-> NoCall]
    /\ TriadIdle
    /\ PitchIdle
    /\ FreqIdle

Init ==
    /\ PageInit
    /\ tlog = [on |-> TRUE, prev |-> NoCall, last |-> NoCall]
    /\ TriadIdle
    /\ PitchIdle
    /\ FreqIdle

SpecTriad == InitTriad /\ [][TriadNext]_vars

SpecPitch == InitPitch /\ [][PitchNext]_vars

Spec == Init /\ [][UiNext]_vars

SpecTriadAny == InitTriadAny /\ [][TriadNext]_vars

SpecFreq == InitFreq /\ [][FreqNext]_vars

SpecPage == InitPage /\ [][PageNext]_vars

(***************************************************************************)
(* Claims about getTriadNotes (checked under SpecTriad).                   *)
(***************************************************************************)
TriadDone == tcall.pc = "done"

ResultStrings == {tcall.result[i].stringIndex : i \in DOMAIN tcall.result}

ResultPitches == {Pitch(tcall.result[i]) : i \in DOMAIN tcall.result}

StringSpan ==
    (CHOOSE a \in ResultStrings : \A b \in ResultStrings : a >= b)
    - (CHOOSE a \in ResultStrings : \A b \in ResultStrings : a <= b)

PitchSpan ==
    (CHOOSE a \in ResultPitches : \A b \in ResultPitches : a >= b)
    - (CHOOSE a \in ResultPitches : \A b \in ResultPitches : a <= b)

\* third offset t of the quality of the call: 4 for major, 3 for minor
ThirdOffset == IF tcall.major THEN 4 ELSE 3

RootPitchClass == PitchClassAt(tcall.s, tcall.f)

\* C1: for every root position and both qualities getTriadNotes returns
\* exactly 3 positions, on 3 pairwise distinct strings.
C1_ThreeOnDistinctStrings ==
    TriadDone =>
        /\ Len(tcall.result) = 3
        /\ Cardinality(ResultStrings) = 3

\* C2: every returned position has the pitch class its role label announces:
\* 'R' the root's pitch class r, '3' / 'b3' (r + t) mod 12, '5' (r + 7) mod 12.
C2_RolePitchClasses ==
    TriadDone =>
        \A i \in DOMAIN tcall.result :
            LET n  == tcall.result[i]
                pc == PitchClassAt(n.stringIndex, n.fret)
            IN  /\ n.interval = "R" => pc = RootPitchClass
                /\ n.interval \in {"3", "b3"} => pc = (RootPitchClass + ThirdOffset) % 12
                /\ n.interval = "5" => pc = (RootPitchClass + 7) % 12

\* C3 (as stated): the strings of the returned shape are three consecutive
\* string indices containing the root string.
C3_AdjacentStrings ==
    TriadDone =>
        \E lo \in 0..3 :
            /\ ResultStrings = {lo, lo + 1, lo + 2}
            /\ tcall.s \in ResultStrings

\* the call took a low-fret shape of a root string other than the G string:
\* the root is below fret 3 of the low E or A string or below fret 2 of the D
\* or B string
SkippingShape ==
    \/ tcall.s \in {4, 5} /\ tcall.f < 3
    \/ tcall.s \in {1, 3} /\ tcall.f < 2

\* C3 (amended): the strings of the returned shape are three consecutive
\* string indices containing the root string, with two exceptions: the
\* low-fret shapes of the low E, A, D and B strings use the strings 5 4 2,
\* 4 3 1, 3 2 0 and 1 3 0, and a result of two positions uses the root string
\* and the string next to it
C3_AdjacentUnlessSkipping ==
    TriadDone =>
        IF SkippingShape
        THEN ResultStrings = (CASE tcall.s = 5 -> {5, 4, 2}
                                [] tcall.s = 4 -> {4, 3, 1}
                                [] tcall.s = 3 -> {3, 2, 0}
                                [] OTHER       -> {1, 3, 0})
        ELSE IF Len(tcall.result) = 3
        THEN \E lo \in 0..3 :
                /\ ResultStrings = {lo, lo + 1, lo + 2}
                /\ tcall.s \in ResultStrings
        ELSE /\ Len(tcall.result) = 2
             /\ ResultStrings = {tcall.s, tcall.s + 1}

\* the low-fret shape of the open G string has been returned: it is below
\* the standard-shape fret and still on three adjacent strings
C3_Witness ==
    /\ TriadDone
    /\ tcall.s = 2 /\ tcall.f = 0 /\ tcall.major
    /\ ~useStandardShape(tcall.s, tcall.f)
    /\ ResultStrings = {1, 2, 3}

\* C4 (as stated): the returned shape is a closed voicing, its highest and
\* lowest pitch are less than 12 semitones apart.
C4_ClosedVoicing == TriadDone => PitchSpan < 12

\* C4 (amended): the highest and lowest returned pitch are less than 12
\* semitones apart, except in the low-fret shapes of the low E, A, D and B
\* strings, which are open voicings: 16 semitones for a major root on the low
\* E, A or D string, 15 semitones for a minor root there and for every root on
\* the B string
C4_ClosedUnlessSkipping ==
    TriadDone =>
        IF SkippingShape
        THEN PitchSpan = (IF tcall.major /\ tcall.s # 1 THEN 16 ELSE 15)
        ELSE PitchSpan < 12

\* the low-fret shape of the G string at fret 1 has been returned: it is
\* below the standard-shape fret and still a closed voicing (D, A, B)
C4_Witness ==
    /\ TriadDone
    /\ tcall.s = 2 /\ tcall.f = 1 /\ tcall.major
    /\ ~useStandardShape(tcall.s, tcall.f)
    /\ PitchSpan = 9

\* C5: every returned position has a fret in [0,22] and a string index in
\* [0,5]; a candidate whose fret is outside [0,22] is not part of the result.
C5_OnBoard ==
    TriadDone =>
        /\ \A i \in DOMAIN tcall.result :
              /\ tcall.result[i].fret \in 0..22
              /\ tcall.result[i].stringIndex \in 0..5
        /\ LET cand == triadCandidates(tcall.s, tcall.f, tcall.major) IN
           \A k \in DOMAIN cand :
              cand[k].fret \notin 0..22 =>
                  \A i \in DOMAIN tcall.result : tcall.result[i] # cand[k]

\* a call one of whose candidates is off the board has returned
C5_Witness ==
    /\ TriadDone
    /\ \E k \in DOMAIN triadCandidates(tcall.s, tcall.f, tcall.major) :
          triadCandidates(tcall.s, tcall.f, tcall.major)[k].fret \notin 0..22

\* C6: for the root on the low-E string (row 5), fret 3 (G), major, the result
\* holds the G at row 5 fret 3 as 'R', a B on the A string (row 4) as '3' and a
\* D on the D string (row 3) as '5', each fret within [0,22].
C6_GMajorExample ==
    (TriadDone /\ tcall.s = 5 /\ tcall.f = 3 /\ tcall.major) =>
        /\ noteUp(stringsTopToBottom[5], 3) = "G"
        /\ \E i \in DOMAIN tcall.result :
              tcall.result[i] = Note(5, 3, "R")
        /\ \E i \in DOMAIN tcall.result :
              LET n == tcall.result[i] IN
              /\ n.stringIndex = 4 /\ stringsTopToBottom[4] = "A"
              /\ n.interval = "3" /\ n.fret \in 0..22
              /\ noteUp("A", n.fret) = "B"
        /\ \E i \in DOMAIN tcall.result :
              LET n == tcall.result[i] IN
              /\ n.stringIndex = 3 /\ stringsTopToBottom[3] = "D"
              /\ n.interval = "5" /\ n.fret \in 0..22
              /\ noteUp("D", n.fret) = "D"

\* the call for G major on the low-E string has returned its three positions
C6_Witness ==
    /\ TriadDone /\ tcall.s = 5 /\ tcall.f = 3 /\ tcall.major
    /\ Len(tcall.result) = 3

(***************************************************************************)
(* Claims about noteUp and getIntervalSteps (checked under SpecPitch).     *)
(***************************************************************************)
NoteNames == {NOTE_ORDER[i] : i \in 1..12}

StepSum == IndexOf(ncall.base) + ncall.steps

\* C8: noteUp(base, steps) is the pitch class (base + steps) mod 12
\* with a non-negative modulo for every integer steps, is always one of the 12
\* pitch classes, and noteUp(p, n) = noteUp(p, n mod 12).
C8_ProperModulo ==
    ncall.pc \in {"reduced", "done"} =>
        /\ ncall.out = NOTE_ORDER[(StepSum % 12) + 1]
        /\ ncall.out \in NoteNames
        /\ ncall.out = ncall.reduced

\* C9: noteUp(noteUp(p, n), -n) = p for every pitch class p and
\* every integer n.
C9_RoundTrip ==
    ncall.pc \in {"back", "reduced", "done"} => ncall.back = ncall.base

\* C10: getIntervalSteps(a, b) is an integer in [0,11] equal to
\* (index(a) - index(b)) mod 12, and getIntervalSteps(a, a) = 0.
C10_IntervalSteps ==
    ncall.pc = "done" =>
        /\ ncall.isteps \in 0..11
        /\ ncall.isteps = (IndexOf(ncall.base) - IndexOf(ncall.root)) % 12
        /\ ncall.base = ncall.root => ncall.isteps = 0

\* an interval from a higher-indexed root up to a lower-indexed note
C10_Witness ==
    /\ ncall.pc = "done"
    /\ ncall.base = "D" /\ ncall.root = "A"
    /\ ncall.isteps = 5

(***************************************************************************)
(* Further claims about getTriadNotes (checked under SpecTriad).           *)
(***************************************************************************)
RootNote == Note(tcall.s, tcall.f, "R")

\* the call returned the standard shape of its root string
UsedStandard ==
    tcall.result = SelectSeq(<<RootNote>> \o standardShape(tcall.s, tcall.f, tcall.major),
                             fretOnBoard)

\* the call returned the low-fret shape of its root string
UsedLowFret ==
    /\ tcall.s # 0
    /\ tcall.result = SelectSeq(<<RootNote>> \o lowFretShape(tcall.s, tcall.f, tcall.major),
                                fretOnBoard)

\* no fret of the standard shape of the given quality is negative at the
\* root of the call
DefaultFits(isMajor) ==
    \A i \in DOMAIN standardShape(tcall.s, tcall.f, isMajor) :
        standardShape(tcall.s, tcall.f, isMajor)[i].fret >= 0

\* C22 (as stated): getTriadNotes uses the standard shape of the root string
\* whenever every fret of that shape, for the quality asked, is >= 0 at the
\* root fret, and the low-fret shape only when the standard shape would place
\* a note at a negative fret
C22_DefaultUnlessNegative ==
    TriadDone =>
        /\ UsedStandard = DefaultFits(tcall.major)
        /\ ~UsedStandard => UsedLowFret

\* C22 (amended): the standard shape is used exactly when the standard shapes
\* of both qualities have every fret >= 0 at the root fret; otherwise the
\* low-fret shape is used
C22_DefaultUnlessEitherNegative ==
    TriadDone =>
        /\ UsedStandard = (DefaultFits(TRUE) /\ DefaultFits(FALSE))
        /\ ~UsedStandard => UsedLowFret

\* the major shape of the root at fret 1 of the B string: the standard major
\* shape would fit (frets 0 and 0), yet the low-fret shape came back
C22_Witness ==
    /\ TriadDone
    /\ tcall.s = 1 /\ tcall.f = 1 /\ tcall.major
    /\ DefaultFits(TRUE)
    /\ UsedLowFret

\* the fret offsets from the root fret of the returned positions other than
\* the first
ResultOffsets == {tcall.result[i].fret - tcall.f : i \in DOMAIN tcall.result \ {1}}

\* C23: for every root position and both qualities every non-root position
\* returned by getTriadNotes is at a small fret offset from the root fret:
\* fret - rootFret lies in -4..3
C23_SmallOffsets ==
    TriadDone =>
        \A i \in DOMAIN tcall.result :
            tcall.result[i].interval # "R" =>
                /\ tcall.result[i].fret - tcall.f >= 0 - 4
                /\ tcall.result[i].fret - tcall.f <= 3

\* the minor shape of the open A string reaches two frets up, the minor shape
\* of the low E at fret 3 reaches three frets down
C23_Witness ==
    /\ TriadDone
    /\ ~tcall.major
    /\ \/ tcall.s = 4 /\ tcall.f = 0 /\ ResultOffsets = {2, 1}
       \/ tcall.s = 5 /\ tcall.f = 3 /\ ResultOffsets = {0 - 2, 0 - 3}

\* C24: for every root position and both qualities the list returned by
\* getTriadNotes has the clicked root position, labelled R, as its first
\* entry, and has no other entry labelled R and no other entry on the string
\* of the root
C24_RootFirstAndOnce ==
    TriadDone =>
        /\ Len(tcall.result) >= 1
        /\ tcall.result[1] = RootNote
        /\ \A i \in DOMAIN tcall.result \ {1} :
                /\ tcall.result[i].interval # "R"
                /\ tcall.result[i].stringIndex # tcall.s

\* the minor shape of the open G string: the root and one more position
C24_Witness ==
    /\ TriadDone
    /\ tcall.s = 2 /\ tcall.f = 0 /\ ~tcall.major
    /\ tcall.result = <<RootNote, Note(3, 0, "5")>>

(***************************************************************************)
(* Claim about calls outside the board (checked under SpecTriadAny).       *)
(***************************************************************************)
ArgumentsOnBoard == tcall.s \in 0..5 /\ tcall.f \in 0..22

\* C21: a call of getTriadNotes with a string index outside 0..5 or a fret
\* outside 0..22 is rejected before any computation: it yields an error and
\* never a list of positions
C21_OutOfRangeRejected ==
    (tcall.pc # "ready" /\ ~ArgumentsOnBoard) => tcall.pc = "error"

(***************************************************************************)
(* Claims about the boards and the audio (checked under SpecPage).         *)
(***************************************************************************)
\* the board of the given mode in the revision that is loaded
Board(mode) ==
    IF page = "factory" THEN fb[mode]
    ELSE IF mode = "intervals" THEN intervalsBoard
    ELSE IF mode = "major-triad" THEN majorBoard ELSE minorBoard

\* pitch class of the cell of row r at fret f: (open pitch + fret) mod 12
CellPitchClass(r, f) == (OpenPitch[r] + f) % 12

\* the interval names by semitone distance
IntervalName(d) ==
    CASE d = 0 -> "U" [] d = 1 -> "m2" [] d = 2 -> "M2" [] d = 3 -> "m3"
      [] d = 4 -> "M3" [] d = 5 -> "P4" [] d = 6 -> "TT" [] d = 7 -> "P5"
      [] d = 8 -> "m6" [] d = 9 -> "M6" [] d = 10 -> "m7" [] OTHER -> "M7"

Selected(mode) == sel[mode] # NoCell

\* pitch class of the cell whose click selected the root of the board
SelPitchClass(mode) == CellPitchClass(sel[mode][1], sel[mode][2])

\* C11: in the intervals mode, after the click that selects a root of pitch
\* class r, every cell shows the interval name of (cell pitch class - r) mod 12
\* and is marked as root exactly when its pitch class is r
C11_IntervalLabels ==
    Selected("intervals") =>
        \A r \in StringIndices, f \in Frets :
            LET btn == Board("intervals").cells[r][f]
                d   == (CellPitchClass(r, f) - SelPitchClass("intervals")) % 12
            IN  /\ btn.intervalText = IntervalName(d)
                /\ ~btn.intervalGhost
                /\ btn.root = (CellPitchClass(r, f) = SelPitchClass("intervals"))

\* the B of the open B string is the root on the createFretboard intervals
\* board: the open high E shows P4 and the B at fret 7 of that string is a root
C11_Witness ==
    /\ page = "factory"
    /\ sel["intervals"] = <<1, 0>>
    /\ fb["intervals"].cells[0][0].intervalText = "P4"
    /\ fb["intervals"].cells[0][7].root

TriadModes == {"major-triad", "minor-triad"}

\* the tones on the audio graph were scheduled by the click on cell <<s, f>>
\* of the board of the given mode
PlayedAt(mode, s, f) == played.mode = mode /\ played.s = s /\ played.f = f

\* semitones of the third above the root in a triad mode
ThirdOf(mode) == IF mode = "major-triad" THEN 4 ELSE 3

\* C12: in a triad mode, after the click that selects a root of pitch class r,
\* the cells of pitch class r are labelled R and marked root, the cells of the
\* third (r+4 major, r+3 minor) are labelled 3 / b3, the cells of r+7 are
\* labelled 5, and every other cell is ghosted with an empty label and no
\* root mark
C12_TriadLabels ==
    \A m \in TriadModes :
        Selected(m) =>
            \A r \in StringIndices, f \in Frets :
                LET btn == Board(m).cells[r][f]
                    d   == (CellPitchClass(r, f) - SelPitchClass(m)) % 12
                IN  CASE d = 0 ->
                            btn.intervalText = "R" /\ btn.root /\ ~btn.intervalGhost
                      [] d = ThirdOf(m) ->
                            /\ btn.intervalText = (IF m = "major-triad" THEN "3" ELSE "b3")
                            /\ ~btn.intervalGhost /\ ~btn.root
                      [] d = 7 ->
                            btn.intervalText = "5" /\ ~btn.intervalGhost /\ ~btn.root
                      [] OTHER ->
                            /\ btn.intervalGhost /\ btn.letterGhost
                            /\ btn.intervalText = "" /\ ~btn.root

\* the open low E is the root on the major triads board: the G# at fret 9 of the B string shows 3, the F at fret 1 of the high E
\* string is ghosted; the minor board has a root as well
C12_Witness ==
    /\ page = "apps"
    /\ sel["major-triad"] = <<5, 0>>
    /\ majorBoard.cells[1][9].intervalText = "3"
    /\ majorBoard.cells[0][1].letterGhost
    /\ sel["minor-triad"] = <<1, 0>>
    /\ minorBoard.cells[3][0].intervalText = "b3"

\* the display a selecting click on cell <<s, f>> gives on the board of the
\* given mode when the given revision of the page has just been loaded
FreshDisplayOn(pg, mode, s, f) ==
    IF pg = "factory"
    THEN show(createFretboard(mode), mode, DataNote(s, f)).cells
    ELSE IF mode = "intervals"
    THEN showIntervals(clearIntervals(buildIntervalsBoard), DataNote(s, f)).cells
    ELSE IF mode = "major-triad"
    THEN showMajorTriad(clearTriad(buildBoard), DataNote(s, f), s, f).cells
    ELSE showMinorTriad(clearTriad(buildBoard), DataNote(s, f), s, f).cells

FreshDisplays ==
    [pg \in {"apps", "factory"} |-> [m \in Modes |->
        [s \in StringIndices |-> [f \in Frets |-> FreshDisplayOn(pg, m, s, f)]]]]

FreshDisplay(mode, s, f) == FreshDisplays[page][mode][s][f]

\* C13: the display that results from a selecting click on position p (every
\* cell's label, ghosting, root mark and triad outline) depends only on p and
\* the board's mode: it is the display the same click gives on a fresh page,
\* whatever was clicked or cleared before
C13_DisplayFromPositionOnly ==
    \A m \in Modes :
        Selected(m) => Board(m).cells = FreshDisplay(m, sel[m][1], sel[m][2])

\* all three boards of the apps show a root, so at least three clicks have
\* been made; the major board outlines the shape of the open low E, whose
\* fifth is at fret 2 of the A string
C13_Witness ==
    /\ page = "apps"
    /\ sel["intervals"] = <<2, 0>>
    /\ sel["minor-triad"] = <<0, 0>>
    /\ sel["major-triad"] = <<5, 0>>
    /\ majorBoard.cells[4][2].activeTriad
    /\ played.mode = "minor-triad"

\* the open strings of rows 0..5, top to bottom, and their pitch classes
RowOpenNames == [r \in 0..5 |-> <<"E", "B", "G", "D", "A", "E">>[r + 1]]

RowOpenClasses == [r \in 0..5 |-> <<4, 11, 7, 2, 9, 4>>[r + 1]]

CellsOf(b) == {<<r, f>> : r \in DOMAIN b.cells, f \in 0..FRET_COUNT}

\* C14: the board that is built has exactly 6 x 23 cells, rows 0..5 (row 0 the
\* high E; open strings E, B, G, D, A, E from top to bottom) and frets 0..22,
\* and the note of each cell is the pitch class (open-string pitch class +
\* fret) mod 12
C14_BoardGeometry ==
    \A m \in Modes :
        LET b == Board(m)
        IN  /\ DOMAIN b.cells = 0..5
            /\ \A r \in 0..5 : DOMAIN b.cells[r] = 0..22
            /\ Cardinality(CellsOf(b)) = 138
            /\ \A r \in 0..5 :
                    /\ DataOpen(r) = RowOpenNames[r]
                    /\ IndexOf(RowOpenNames[r]) = RowOpenClasses[r]
                    /\ \A f \in 0..22 :
                            /\ DataNote(r, f) = NOTE_ORDER[((RowOpenClasses[r] + f) % 12) + 1]
                            /\ b.cells[r][f].letterText = DataNote(r, f)

\* the boards of createFretboard just built: nothing selected or played, and
\* the cell at fret 22 of the B string is an A
C14_Witness ==
    /\ page = "factory"
    /\ sel = NoSel
    /\ played = NoPlay
    /\ fb["intervals"].cells[1][22].letterText = "A"
    /\ fb["major-triad"].cells[5][0].letterText = "E"

\* the tones on the audio graph were scheduled by a triad playback
TriadPlayed == played.mode \in TriadModes

\* C15: the playback of a triad schedules exactly three tones, with delays of
\* 0, 0.08 and 0.16 s in scheduling order
C15_ThreeTonesStaggered ==
    TriadPlayed =>
        /\ Len(tones) = 3
        /\ tones[1].delayMs = 0
        /\ tones[2].delayMs = 80
        /\ tones[3].delayMs = 160

\* the minor board of createFretboard has played the triad of the open D string
C15_Witness ==
    /\ page = "factory"
    /\ PlayedAt("minor-triad", 3, 0)
    /\ Len(tones) = 3
    /\ audioCtx = "context"

\* the open pitch, in semitones, of the string whose open frequency (Hz x 100)
\* is the base of a tone
BasePitch(base) == OpenPitch[CHOOSE r \in 0..5 : STRING_BASE_FREQ(
                        IF r = 0 THEN "E-high" ELSE IF r = 5 THEN "E-low"
                        ELSE RowOpenNames[r]) = base]

\* the pitch of a scheduled tone in semitones: base * 2^(semis/12)
TonePitch(t) == BasePitch(t.base) + t.semis

TonePitches == {TonePitch(tones[i]) : i \in DOMAIN tones}

\* the shape outlined for the click that scheduled the tones
PlayedShape == getTriadNotes(played.s, played.f, played.mode = "major-triad")

\* C16: the three tones scheduled by a triad playback are the tones of the
\* three positions of the selected shape: the pitch of each tone is the open
\* pitch of the string of a shape position plus its fret, and every shape
\* position is sounded
C16_TonesOfShape ==
    (page = "apps" /\ TriadPlayed) =>
        TonePitches = {Pitch(PlayedShape[j]) : j \in DOMAIN PlayedShape}

\* C17: the tones of a triad playback are scheduled lowest pitch first: the
\* tone at delay 0 has the lowest pitch and no later tone is lower than the
\* tone before it
C17_LowestFirst ==
    TriadPlayed =>
        /\ \A i \in DOMAIN tones : TonePitch(tones[1]) <= TonePitch(tones[i])
        /\ \A i \in 1..(Len(tones) - 1) :
                /\ TonePitch(tones[i]) <= TonePitch(tones[i + 1])
                /\ tones[i].delayMs <= tones[i + 1].delayMs

\* the major triad of the open high E has been scheduled: E4, G#4, B4
C17_Witness ==
    /\ PlayedAt("major-triad", 0, 0)
    /\ tones[1].delayMs = 0
    /\ <<TonePitch(tones[1]), TonePitch(tones[2]), TonePitch(tones[3])>> = <<64, 68, 71>>

(***************************************************************************)
(* Claims about the state machine of a board (checked under SpecPage).     *)
(***************************************************************************)
\* Idle: the board has no active root
Idle(mode) == Board(mode).activeRoot = "null"

\* RootSelected for cell c: the note of c is the active root and c is the
\* cell whose click selected it
RootSelected(mode, c) == Board(mode).activeRoot = DataNote(c[1], c[2]) /\ sel[mode] = c

\* the step is a click on the board of the given mode that lands on c: the
\* button of a cell, or NoButton
ClickAt(mode, c) ==
    IF page = "factory" THEN FretboardClick(mode, c)
    ELSE IF mode = "intervals" THEN IntervalsClick(c)
    ELSE IF mode = "major-triad" THEN MajorClick(c)
    ELSE MinorClick(c)

\* the step is a press of the Escape key
EscapeAt == IF page = "factory" THEN FretboardEscape ELSE Escape

C19_Step ==
    /\ \A m \in Modes, c \in ClickCells :
            ClickAt(m, c) =>
                /\ Idle(m) => RootSelected(m, c)'
                /\ RootSelected(m, c) => Idle(m)'
    /\ EscapeAt => \A m \in Modes : Idle(m)'

\* C19: each board is a machine of two states, Idle and RootSelected: it
\* starts Idle; a click while Idle makes the clicked cell the active root; a
\* repeated click on the cell of the active root, and Escape in any state,
\* return it to Idle
C19_TwoStateMachine ==
    /\ \A m \in Modes : Idle(m)
    /\ [][C19_Step]_vars

\* the major board of createFretboard is Idle again after the click on the
\* open A string selected a root and played its triad
C19_Witness ==
    /\ page = "factory"
    /\ PlayedAt("major-triad", 4, 0)
    /\ Idle("major-triad")
    /\ ~Idle("minor-triad")

\* the step is a click on cell c of the board of the given mode, arriving when
\* the board has an active root that was selected at another position
ClickElsewhere(m, c) == ~Idle(m) /\ sel[m] # c /\ ClickAt(m, c)

\* the board is RootSelected for c and shows the labels (and in the triad apps
\* the outlined shape) computed for c
Shows(m, c) == RootSelected(m, c) /\ Board(m).cells = FreshDisplay(m, c[1], c[2])

\* the display of the board of the given mode when the page has just been
\* loaded: note letters only
ClearedDisplayOn(pg, mode) ==
    IF pg = "factory" THEN createFretboard(mode).cells
    ELSE IF mode = "intervals" THEN clearIntervals(buildIntervalsBoard).cells
    ELSE clearTriad(buildBoard).cells

ClearedDisplays ==
    [pg \in {"apps", "factory"} |-> [m \in Modes |-> ClearedDisplayOn(pg, m)]]

ClearedDisplay(mode) == ClearedDisplays[page][mode]

C20_StepAsStated ==
    \A m \in Modes, c \in ClickCells : ClickElsewhere(m, c) => Shows(m, c)'

\* C20 (as stated): whenever a root is active and a cell at a different
\* position is clicked, the board afterwards is RootSelected for the new
\* position and shows its labels and shape
C20_ClickSupersedes == [][C20_StepAsStated]_vars

C20_StepByNote ==
    \A m \in Modes, c \in ClickCells :
        ClickElsewhere(m, c) =>
            IF DataNote(c[1], c[2]) # Board(m).activeRoot
            THEN Shows(m, c)'
            ELSE Idle(m)' /\ Board(m)'.cells = ClearedDisplay(m)

\* C20 (amended): whenever a root is active and a cell at a different
\* position is clicked, the board afterwards is RootSelected for the new
\* position and shows its labels and shape if the note name of the clicked
\* cell differs from the active root's; if the clicked cell has the same note
\* name as the active root the board is cleared and Idle
C20_NewNoteSupersedes == [][C20_StepByNote]_vars

\* the click on the open B string of the major triads app arrived when
\* another root was active, and the board now shows the shape of the open B
C20_Witness ==
    /\ page = "apps"
    /\ PlayedAt("major-triad", 1, 0)
    /\ played.wasActive
    /\ sel["major-triad"] = <<1, 0>>
    /\ majorBoard.activeRoot = "B"
    /\ majorBoard.cells[0][2].activeTriad

(***************************************************************************)
(* Claims about the triad outline (checked under SpecPage).                *)
(***************************************************************************)
\* the cells of the triad board of the given mode that carry the outline
Outlined(mode) ==
    {c \in StringIndices \X Frets : Board(mode).cells[c[1]][c[2]].activeTriad}

\* the positions getTriadNotes returns for the selected root of the board
ShapePositions(mode) ==
    LET shape == getTriadNotes(sel[mode][1], sel[mode][2], mode = "major-triad")
    IN  {<<shape[i].stringIndex, shape[i].fret>> : i \in DOMAIN shape}

\* C25: after a selecting click on a triad board the cells outlined as the
\* active triad are exactly the positions getTriadNotes returns for that root
\* and quality, and no outline of an earlier root remains
C25_OutlineIsShape ==
    page = "apps" =>
        \A m \in TriadModes : Selected(m) => Outlined(m) = ShapePositions(m)

\* C26: in every state reachable by clicks and Escape presses on a triad
\* board, every outlined cell has a pitch class of the active root's triad set
\* (0, 4, 7 above the root in major mode, 0, 3, 7 in minor mode) and is not
\* ghosted; at most 3 cells are outlined, all on different strings, and none
\* is outlined while the board is Idle
C26_OutlineWithinTriad ==
    page = "apps" =>
        \A m \in TriadModes :
            /\ Idle(m) => Outlined(m) = {}
            /\ Cardinality(Outlined(m)) <= 3
            /\ \A c, d \in Outlined(m) : c[1] = d[1] => c = d
            /\ \A c \in Outlined(m) :
                    /\ (CellPitchClass(c[1], c[2]) - IndexOf(Board(m).activeRoot)) % 12
                            \in {0, ThirdOf(m), 7}
                    /\ ~Board(m).cells[c[1]][c[2]].intervalGhost
                    /\ ~Board(m).cells[c[1]][c[2]].letterGhost

\* the minor board outlines two cells for the open B string, the major board
\* three cells for the open low E, and both had another root before
C26_Witness ==
    /\ page = "apps"
    /\ sel["minor-triad"] = <<1, 0>>
    /\ Outlined("minor-triad") = {<<1, 0>>, <<0, 2>>}
    /\ sel["major-triad"] = <<5, 0>>
    /\ Outlined("major-triad") = {<<5, 0>>, <<4, 2>>, <<2, 1>>}
    /\ played.wasActive

(***************************************************************************)
(* Claims about the boards of the page (checked under SpecPage).           *)
(***************************************************************************)
\* C27: in every reachable state a cell carries the root mark exactly when its
\* board has an active root and the cell's pitch class is the active root's;
\* on an Idle board no cell carries the root mark, every interval label is
\* empty and hidden and every note letter is visible: the Idle display is the
\* display the board had after construction
C27_RootMarkAndIdleDisplay ==
    \A m \in Modes :
        /\ \A r \in StringIndices, f \in Frets :
                Board(m).cells[r][f].root
                    <=> /\ ~Idle(m)
                        /\ CellPitchClass(r, f) = IndexOf(Board(m).activeRoot)
        /\ Idle(m) =>
                /\ \A r \in StringIndices, f \in Frets :
                        /\ ~Board(m).cells[r][f].root
                        /\ Board(m).cells[r][f].intervalText = ""
                        /\ Board(m).cells[r][f].intervalGhost
                        /\ ~Board(m).cells[r][f].letterGhost
                /\ Board(m).cells = ClearedDisplay(m)

\* on the page of createFretboard the intervals board shows the root A (the
\* open A string and fret 5 of the low E string are marked) while the major
\* board is Idle again after a root had been selected on it and cleared
C27_Witness ==
    /\ page = "factory"
    /\ fb["intervals"].activeRoot = "A"
    /\ fb["intervals"].cells[4][0].root
    /\ fb["intervals"].cells[5][5].root
    /\ Idle("major-triad")
    /\ played.mode = "major-triad"

C28_Step ==
    /\ \A m \in Modes, c \in ClickTargets :
            ClickAt(m, c) => \A other \in Modes \ {m} : Board(other)' = Board(other)
    /\ event' = "Escape" => \A m \in Modes : Idle(m)'
    /\ event' \in Keys \ {"Escape"} =>
            /\ \A m \in Modes : Board(m)' = Board(m)
            /\ UNCHANGED <<sel, audioCtx, tones, played>>

\* C28: the three boards are independent under clicks and coupled only by
\* the Escape key: a click on one board leaves the active root and the display
\* of the other two unchanged; one press of Escape puts all three boards in
\* Idle; a press of any other key changes nothing
C28_IndependentBoards == [][C28_Step]_vars

\* a key other than Escape has just been pressed on the page of createFretboard
\* while the intervals board and the minor board show a root and the major
\* board is Idle
C28_Witness ==
    /\ page = "factory"
    /\ event = "a"
    /\ Selected("intervals")
    /\ Selected("minor-triad")
    /\ Idle("major-triad")
    /\ played.mode = "minor-triad"

C29_Step ==
    page = "factory" =>
        /\ \A m \in Modes, c \in ClickCells :
                FretboardClick(m, c) =>
                    /\ ~Idle(m)' =>
                            /\ scheduled' = IF m = "intervals" THEN 1 ELSE 3
                            /\ Len(tones') = scheduled'
                            /\ PlayedAt(m, c[1], c[2])'
                    /\ Idle(m)' =>
                            /\ scheduled' = 0
                            /\ UNCHANGED <<tones, played, audioCtx>>
        /\ \A m \in Modes :
                FretboardClick(m, NoButton) =>
                    /\ scheduled' = 0
                    /\ UNCHANGED <<tones, played, audioCtx, sel>>
        /\ event' \in Keys =>
                /\ scheduled' = 0
                /\ UNCHANGED <<tones, played, audioCtx>>

\* C29: on the boards of createFretboard sound is scheduled by selecting
\* clicks only: a click that selects a root schedules exactly one tone in the
\* intervals mode and exactly three tones in a triad mode; a click that clears
\* the board and a press of Escape (or of any key) schedule no tone
C29_SoundOnSelectingClicksOnly == [][C29_Step]_vars

\* a click has just cleared a board of createFretboard and scheduled nothing;
\* the three tones of the major triad selected before are the last ones
C29_Witness ==
    /\ page = "factory"
    /\ event = "click"
    /\ scheduled = 0
    /\ sel = NoSel
    /\ played.mode = "major-triad"
    /\ played.wasActive
    /\ Len(tones) = 3

C30_Step ==
    /\ audioCtx # "null" => audioCtx' = audioCtx
    /\ (audioCtx = "null" /\ audioCtx' # "null") =>
            /\ event' = "click"
            /\ scheduled' > 0
            /\ played = NoPlay
    /\ (event' = "click" /\ scheduled' > 0) =>
            /\ audioCtx' = "context"
            /\ ctxState' \in ContextStates
            /\ resumed' <=> ctxState' = "suspended"
    /\ (event' # "click" \/ scheduled' = 0) =>
            /\ ctxState' = "unread"
            /\ ~resumed'

\* C30: at most one audio context is ever created: there is none before the
\* first click that schedules sound, initAudio creates it on its first call,
\* and every later call returns that same context; a call that finds the
\* context suspended resumes it, and resume() is called in no other case
C30_OneAudioContext ==
    /\ [](audioCtx \in {"null", "context"})
    /\ [](audioCtx = "null" <=> played = NoPlay)
    /\ [][C30_Step]_vars

\* a second click has scheduled tones: the board it arrived on had an active
\* root, selected by an earlier click that scheduled tones too; the context is
\* the one created then, it was found suspended and has been resumed
C30_Witness ==
    /\ audioCtx = "context"
    /\ event = "click"
    /\ scheduled = 3
    /\ played.wasActive
    /\ ctxState = "suspended"
    /\ resumed

(***************************************************************************)
(* Claim about getFrequency (checked under SpecFreq).                      *)
(***************************************************************************)
\* the open frequencies of rows 0..5 in Hz x 100: 329.63 (high E), 246.94 (B),
\* 196.00 (G), 146.83 (D), 110.00 (A), 82.41 (low E)
RowOpenFrequency == [r \in 0..5 |-> <<32963, 24694, 19600, 14683, 11000, 8241>>[r + 1]]

\* C18: for every cell of the board, getFrequency(data-open, fret, row) uses
\* the open frequency of the cell's own string, raised by fret semitones; the
\* two E strings are never confused
C18_OwnStringFrequency ==
    fcall.pc = "done" =>
        /\ fcall.result.base = RowOpenFrequency[fcall.s]
        /\ fcall.result.semis = fcall.f
        /\ (fcall.s = 0) = (fcall.result.base = 32963)
        /\ (fcall.s = 5) = (fcall.result.base = 8241)

\* the frequency of fret 12 of the low E string has been computed from 82.41 Hz
C18_Witness ==
    /\ fcall.pc = "done"
    /\ fcall.s = 5
    /\ fcall.f = 12
    /\ fcall.result = [base |-> 8241, semis |-> 12]

====
